---- MODULE Spec2Model ----
(***************************************************************************)
(* A model of setVCD (src/setVCD/setVCD.py): the SetVCD engine built over  *)
(* an already-parsed waveform, its three query operations search, get and  *)
(* get_values, the raw value decoder _value_to_int and the name-suggestion *)
(* heuristic used when an exact signal lookup fails.                       *)
(*                                                                         *)
(* Strings are modelled as sequences of one-character strings so that      *)
(* lower(), split("."), the substring test and the base-2 parse are        *)
(* computed, not assumed.  An Optional value is <<>> (None) or <<v>>.      *)
(***************************************************************************)
EXTENDS Integers, Sequences, FiniteSets, TLC

VARIABLES
    vcd,         \* the constructor's input: a capability object over a trace
    clock,       \* the clock name given to the constructor
    status,      \* "new" before __init__ ran, then "ready" or "failed"
    wave,        \* self.wave: <<>> while unset, <<trace>> once assigned
    sigs,        \* self.sigs["clock"]: <<>> while unset, <<tv>> once assigned
    last_clock,  \* self.last_clock: <<>> while unset, <<T_max>> once assigned
    err,         \* the error __init__ raised (type "none" when it did not)
    inspected,   \* history: the names __init__ resolved through wave[name]
    last,        \* history: the record of the most recent query call
    round_trip,  \* history: the last call was get_values on the set that the
                 \* get call right before it returned for the same signal
    first,       \* history: the first get call of the run (when track holds)
    between,     \* history: another call has run since the first get call
    track,       \* whether the run records its first get call
    value_type   \* the value type the caller holds: <<>> before it made
                 \* one, <<FP(frac, signed)>> after

vars == <<vcd, clock, status, wave, sigs, last_clock, err, inspected, last,
          round_trip, first, between, track, value_type>>

----------------------------------------------------------------------------
(* The bound of the model, and the program's constants *)

\* transition times of the generated traces range over 0..MaxTime
MaxTime == 2

\* the generated value strings have 1..MaxWidth bits
MaxWidth == 2

\* the fractional bits a caller asks of FP range up to MaxFrac
MaxFrac == 4

\* scored_signals[:5], the number of suggestions kept
MaxSimilar == 5

\* all_signals[:10], the length of the fallback prefix
MaxAvailable == 10

----------------------------------------------------------------------------
(* Optional values *)

None == << >>
Some(v) == <<v>>
IsNone(o) == o = << >>

Min(S) == CHOOSE m \in S : \A n \in S : m <= n

----------------------------------------------------------------------------
(* Strings as character sequences *)

UpperChars == <<"A","B","C","D","E","F","G","H","I","J","K","L","M",
                "N","O","P","Q","R","S","T","U","V","W","X","Y","Z">>
LowerChars == <<"a","b","c","d","e","f","g","h","i","j","k","l","m",
                "n","o","p","q","r","s","t","u","v","w","x","y","z">>

\* the lower-case letter of every upper-case letter
LowerOf ==
    [c \in {UpperChars[i] : i \in 1..Len(UpperChars)} |->
        LowerChars[CHOOSE i \in 1..Len(UpperChars) : UpperChars[i] = c]]

\* str.lower() on one character
LowerChar(c) == IF c \in DOMAIN LowerOf THEN LowerOf[c] ELSE c

\* str.lower()
Lower(s) == [i \in 1..Len(s) |-> LowerChar(s[i])]

\* needle in hay (Python's substring test)
Contains(hay, needle) ==
    \E i \in 0..(Len(hay) - Len(needle)) :
        SubSeq(hay, i + 1, i + Len(needle)) = needle

\* s.split("."): the parts between the dots, empty parts included
RECURSIVE SplitDot(_)
SplitDot(s) ==
    IF \A i \in 1..Len(s) : s[i] # "."
    THEN <<s>>
    ELSE LET d == Min({i \in 1..Len(s) : s[i] = "."})
         IN  <<SubSeq(s, 1, d - 1)>> \o SplitDot(SubSeq(s, d + 1, Len(s)))

----------------------------------------------------------------------------
(* _value_to_int: the Raw decoding of a value string *)

\* a variant that reads the digits least significant first
RECURSIVE Base2Reversed(_)
Base2Reversed(s) ==
    IF Len(s) = 0 THEN 0
    ELSE 2 * Base2Reversed(SubSeq(s, 2, Len(s)))
         + (IF s[1] = "1" THEN 1 ELSE 0)

\* int(value, 2) on a string of binary digits, most significant first
RECURSIVE Base2(_)
Base2(s) ==
    IF Len(s) = 0 THEN 0
    ELSE 2 * Base2(SubSeq(s, 1, Len(s) - 1))
         + (IF s[Len(s)] = "1" THEN 1 ELSE 0)

\* whether int(value, 2) accepts the string (else it raises ValueError)
ParsesBase2(s) == Len(s) > 0 /\ \A i \in 1..Len(s) : s[i] \in {"0", "1"}

_value_to_int(value) ==
    LET value_lower == Lower(value)
    IN  IF Contains(value_lower, <<"x">>) \/ Contains(value_lower, <<"z">>)
        THEN None
        ELSE IF ParsesBase2(value) THEN Some(Base2(value)) ELSE None

----------------------------------------------------------------------------
(* The signal accessor: tv, an ascending list of <<time, value>>, and the  *)
(* point lookup signal_obj[time]                                            *)

\* the number of transitions at or before time (the index of the last one)
LastIndex(tv, time) == Cardinality({i \in 1..Len(tv) : tv[i][1] <= time})

\* signal_obj[time]: [ok |-> TRUE, val |-> the value of the last transition
\* at or before time], or ok = FALSE when there is none (the lookup raises)
Item(tv, time) ==
    LET i == LastIndex(tv, time)
    IN  IF i = 0
        THEN [ok |-> FALSE, val |-> << >>]
        ELSE [ok |-> TRUE, val |-> tv[i][2]]

\* wave.get_signals()
get_signals(w) == w.signals

\* name in all_signals
InList(name, list) == \E i \in 1..Len(list) : list[i] = name

\* all_signals[:n]
Prefix(list, n) == SubSeq(list, 1, IF Len(list) < n THEN Len(list) ELSE n)

----------------------------------------------------------------------------
(* Errors *)

\* an exception: its type, the time its message names (Optional), and the
\* two lists its message may carry
Error(type, time, similar, available) ==
    [type |-> type, time |-> time, similar |-> similar,
     available |-> available]

NoError == Error("none", None, << >>, << >>)

----------------------------------------------------------------------------
(* The suggestion heuristic of a failed exact lookup *)

\* [p for p in name.lower().split(".") if p]
SearchParts(name) == SelectSeq(SplitDot(Lower(name)), LAMBDA p : Len(p) > 0)

\* sum(1 for part in search_parts if part in sig_lower)
Matches(sig, search_parts) ==
    Cardinality({i \in 1..Len(search_parts) :
                    Contains(Lower(sig), search_parts[i])})

\* the loop over all_signals: <<matches, sig>> for every sig with matches > 0
RECURSIVE Scored(_, _)
Scored(all_signals, search_parts) ==
    IF Len(all_signals) = 0 THEN << >>
    ELSE LET sig == Head(all_signals)
             matches == Matches(sig, search_parts)
         IN  (IF matches > 0 THEN << <<matches, sig>> >> ELSE << >>)
             \o Scored(Tail(all_signals), search_parts)

\* a variant that puts x in front of the entries with an equal key
InsertDescUnstable(sorted, x) ==
    LET n == Cardinality({i \in 1..Len(sorted) : sorted[i][1] > x[1]})
    IN  SubSeq(sorted, 1, n) \o <<x>> \o SubSeq(sorted, n + 1, Len(sorted))

\* x put into a list already in descending order of x[1], behind the
\* entries whose key is at least its own
InsertDesc(sorted, x) ==
    LET n == Cardinality({i \in 1..Len(sorted) : sorted[i][1] >= x[1]})
    IN  SubSeq(sorted, 1, n) \o <<x>> \o SubSeq(sorted, n + 1, Len(sorted))

\* scored_signals.sort(reverse=True, key=lambda x: x[0]): stable
RECURSIVE SortDesc(_)
SortDesc(scored) ==
    IF Len(scored) = 0 THEN << >>
    ELSE InsertDesc(SortDesc(SubSeq(scored, 1, Len(scored) - 1)),
                    scored[Len(scored)])

\* similar = [sig for _, sig in scored_signals[:5]]
Similar(name, all_signals) ==
    LET sorted == SortDesc(Scored(all_signals, SearchParts(name)))
        top == Prefix(sorted, MaxSimilar)
    IN  [i \in 1..Len(top) |-> top[i][2]]

\* the message's list: similar if there is any, else all_signals[:10]
NotFound(type, name, all_signals) ==
    LET similar == Similar(name, all_signals)
    IN  IF Len(similar) > 0
        THEN Error(type, None, similar, << >>)
        ELSE Error(type, None, << >>, Prefix(all_signals, MaxAvailable))

----------------------------------------------------------------------------
(* SetVCD.__init__ *)

\* the first transition's time instead of the last one's
FirstTime(tv) == tv[1][1]

\* self.sigs["clock"].tv[-1][0]
LastTime(tv) == tv[Len(tv)][1]

\* a variant that never finds the signal list empty
NoSignalsUnchecked(all_signals) == FALSE

\* not all_signals
NoSignals(all_signals) == Len(all_signals) = 0

\* the state __init__ leaves behind, and the error it raises
InitResult(st, w, sg, lc, e, seen) ==
    [status |-> st, wave |-> w, sigs |-> sg, last_clock |-> lc, err |-> e,
     inspected |-> seen]

__init__(v, ck) ==
    IF v.kind # "object"
    THEN InitResult("failed", None, None, None,
                    Error("InvalidInputError", None, << >>, << >>), {})
    ELSE
    LET all_signals == get_signals(v.trace) IN
    IF NoSignals(all_signals)
    THEN InitResult("failed", Some(v.trace), None, None,
                    Error("EmptyVCDError", None, << >>, << >>), {})
    ELSE IF ~InList(ck, all_signals)
    THEN InitResult("failed", Some(v.trace), None, None,
                    NotFound("ClockSignalError", ck, all_signals), {})
    ELSE IF Len(v.trace.tv[ck]) = 0
    THEN InitResult("failed", Some(v.trace), Some(v.trace.tv[ck]), None,
                    Error("EmptyVCDError", None, << >>, << >>), {ck})
    ELSE InitResult("ready", Some(v.trace), Some(v.trace.tv[ck]),
                    Some(LastTime(v.trace.tv[ck])), NoError, {ck})

----------------------------------------------------------------------------
(* Caller conditions *)

\* Python's True and False (bool is an int: True == 1, False == 0)
PyBool(b) == IF b THEN Some(1) ELSE Some(0)

\* the truth value "if check:" gives an Optional[int]
Truthy(value) == ~IsNone(value) /\ value[1] # 0

\* callable(signal_condition)
Callable(cond) == cond # "not_callable"

\* what the caller's condition does on a window: it returns a value or
\* raises.  The conditions are
\*   is_high       lambda sm1, s, sp1: s == 1
\*   rising_edge   lambda sm1, s, sp1: sm1 == 0 and s == 1
\*   next_is_none  lambda sm1, s, sp1: sp1 is None
\*   cur_value     lambda sm1, s, sp1: s        (a value that is not a bool)
\*   cur_positive  lambda sm1, s, sp1: s > 0    (TypeError when s is None)
Returns(value) == [raised |-> FALSE, value |-> value]
Raises == [raised |-> TRUE, value |-> None]

signal_condition(cond, sm1, s, sp1) ==
    CASE cond = "is_high"      -> Returns(PyBool(s = Some(1)))
      [] cond = "rising_edge"  -> Returns(PyBool(sm1 = Some(0) /\ s = Some(1)))
      [] cond = "next_is_none" -> Returns(PyBool(IsNone(sp1)))
      [] cond = "cur_value"    -> Returns(s)
      [] cond = "cur_positive" -> IF IsNone(s) THEN Raises
                                  ELSE Returns(PyBool(s[1] > 0))

Conditions == {"is_high", "rising_edge", "next_is_none", "cur_value",
               "cur_positive", "not_callable"}

----------------------------------------------------------------------------
(* Records of the query calls *)

Call(kind, signal, cond, ts, ok, out, vals, names, e, calls, looked) ==
    [kind |-> kind, signal |-> signal, cond |-> cond, ts |-> ts, ok |-> ok,
     out |-> out, vals |-> vals, names |-> names, err |-> e,
     calls |-> calls, looked |-> looked]

NoCall == Call("none", << >>, "", {}, TRUE, {}, << >>, << >>, NoError,
               << >>, << >>)

\* a get call that raised e after the condition calls and lookups given
GetRaised(name, cond, e, calls, looked) ==
    Call("get", name, cond, {}, FALSE, {}, << >>, << >>, e, calls, looked)

\* a get call that returned out
GetReturned(name, cond, out, calls, looked) ==
    Call("get", name, cond, {}, TRUE, out, << >>, << >>, NoError, calls,
         looked)

----------------------------------------------------------------------------
(* SetVCD.get *)

\* one point lookup of the scan: whether it succeeded, the Optional string
\* it gave, and the times it looked up
NoLookup == [ok |-> TRUE, val |-> None, at |-> << >>]
Looked(tv, time) ==
    LET r == Item(tv, time)
    IN  [ok |-> r.ok, val |-> IF r.ok THEN Some(r.val) ELSE None,
         at |-> <<time>>]

\* a variant that clamps the previous tick at 0
Sm1StrClamped(tv, time) == Looked(tv, IF time > 0 THEN time - 1 ELSE 0)

\* sm1_str = signal_obj[time - 1] if time > 0 else None
Sm1Str(tv, time) == IF time > 0 THEN Looked(tv, time - 1) ELSE NoLookup

\* a variant that reads the value one tick early
SStrEarly(tv, time) == IF time > 0 THEN Looked(tv, time - 1) ELSE Looked(tv, 0)

\* s_str = signal_obj[time]
SStr(tv, time) == Looked(tv, time)

\* a variant whose boundary test admits the last tick
Sp1StrPastEnd(tv, time, T) ==
    IF time <= T THEN Looked(tv, time + 1) ELSE NoLookup

\* sp1_str = signal_obj[time + 1] if time < self.last_clock else None
Sp1Str(tv, time, T) == IF time < T THEN Looked(tv, time + 1) ELSE NoLookup

\* _value_to_int(x_str) if x_str is not None else None
ToInt(opt_str) == IF IsNone(opt_str) THEN None ELSE _value_to_int(opt_str[1])

\* a variant that takes a raising condition for one that returned False
CheckSwallowing(cond, sm1, s, sp1) ==
    LET r == signal_condition(cond, sm1, s, sp1)
    IN  IF r.raised THEN Returns(PyBool(FALSE)) ELSE r

\* try: check = signal_condition(sm1, s, sp1); except Exception: raise ...
Check(cond, sm1, s, sp1) == signal_condition(cond, sm1, s, sp1)

\* a variant that resumes where the previous get call stopped scanning
ScanStartResumed ==
    IF last.kind = "get" /\ Len(last.calls) > 0
    THEN last.calls[Len(last.calls)].time
    ELSE 0

\* range(0, ...): the first tick of the scan
ScanStart == 0

\* a variant that scans one tick too many
ScanEndPast(T) == T + 1

\* range(..., self.last_clock + 1): the last tick of the scan
ScanEnd(T) == T

\* the for loop of get from tick time on; out, calls and looked are what
\* the ticks before have accumulated
RECURSIVE GetLoop(_, _, _, _, _, _, _, _)
GetLoop(name, tv, cond, T, time, out, calls, looked) ==
    IF time > ScanEnd(T)
    THEN GetReturned(name, cond, out, calls, looked)
    ELSE
    LET a == Sm1Str(tv, time)
        b == SStr(tv, time)
        c == Sp1Str(tv, time, T)
        parse == Error("VCDParseError", Some(time), << >>, << >>)
    IN
    IF ~a.ok THEN GetRaised(name, cond, parse, calls, looked \o a.at)
    ELSE IF ~b.ok
    THEN GetRaised(name, cond, parse, calls, looked \o a.at \o b.at)
    ELSE IF ~c.ok
    THEN GetRaised(name, cond, parse, calls, looked \o a.at \o b.at \o c.at)
    ELSE
    LET sm1 == ToInt(a.val)
        s == ToInt(b.val)
        sp1 == ToInt(c.val)
        check == Check(cond, sm1, s, sp1)
        called == Append(calls,
                         [time |-> time, sm1 |-> sm1, s |-> s, sp1 |-> sp1])
        seen == looked \o a.at \o b.at \o c.at
    IN
    IF check.raised
    THEN GetRaised(name, cond,
                   Error("InvalidSignalConditionError", Some(time), << >>,
                         << >>),
                   called, seen)
    ELSE GetLoop(name, tv, cond, T, time + 1,
                 IF Truthy(check.value) THEN out \cup {time} ELSE out,
                 called, seen)

\* a variant that looks at the condition before the name
getConditionFirst(w, T, signal_name, cond) ==
    IF ~Callable(cond)
    THEN GetRaised(signal_name, cond,
                   Error("InvalidSignalConditionError", None, << >>, << >>),
                   << >>, << >>)
    ELSE IF ~InList(signal_name, get_signals(w))
    THEN GetRaised(signal_name, cond,
                   NotFound("SignalNotFoundError", signal_name,
                            get_signals(w)),
                   << >>, << >>)
    ELSE GetLoop(signal_name, w.tv[signal_name], cond, T, ScanStart, {},
                 << >>, << >>)

\* get(signal_name, signal_condition) on an engine with handle w and
\* last_clock T
get(w, T, signal_name, cond) ==
    IF ~InList(signal_name, get_signals(w))
    THEN GetRaised(signal_name, cond,
                   NotFound("SignalNotFoundError", signal_name,
                            get_signals(w)),
                   << >>, << >>)
    ELSE IF ~Callable(cond)
    THEN GetRaised(signal_name, cond,
                   Error("InvalidSignalConditionError", None, << >>, << >>),
                   << >>, << >>)
    ELSE GetLoop(signal_name, w.tv[signal_name], cond, T, ScanStart, {},
                 << >>, << >>)

----------------------------------------------------------------------------
(* The value types, and get called with one *)

\* FP(frac=frac, signed=signed): a frozen dataclass of two fields; its
\* construction runs no code of the class
FP(frac, signed) == [frac |-> frac, signed |-> signed]

\* vs.get(signal_name, signal_condition, value_type=vt): get has the
\* parameters signal_name and signal_condition only, so binding the
\* arguments raises TypeError before the body runs
get_value_type(w, T, signal_name, cond, vt) ==
    GetRaised(signal_name, cond, Error("TypeError", None, << >>, << >>),
              << >>, << >>)

----------------------------------------------------------------------------
(* VCDSet, the engine of vcd2set: its conditions see the value strings *)

\* similar = [s for s in all_signals if name.lower() in s.lower()]
VCDSetSimilar(name, all_signals) ==
    SelectSeq(all_signals, LAMBDA sig : Contains(Lower(sig), Lower(name)))

\* the message's list: similar[:5] if there is any, else all_signals[:10]
VCDSetNotFound(type, name, all_signals) ==
    LET similar == VCDSetSimilar(name, all_signals)
    IN  IF Len(similar) > 0
        THEN Error(type, None, Prefix(similar, MaxSimilar), << >>)
        ELSE Error(type, None, << >>, Prefix(all_signals, MaxAvailable))

\* VCDSet(vcd, clock)
VCDSet__init__(v, ck) ==
    IF v.kind # "object"
    THEN InitResult("failed", None, None, None,
                    Error("InvalidInputError", None, << >>, << >>), {})
    ELSE
    LET all_signals == get_signals(v.trace) IN
    IF Len(all_signals) = 0
    THEN InitResult("failed", Some(v.trace), None, None,
                    Error("EmptyVCDError", None, << >>, << >>), {})
    ELSE IF ~InList(ck, all_signals)
    THEN InitResult("failed", Some(v.trace), None, None,
                    VCDSetNotFound("ClockSignalError", ck, all_signals), {})
    ELSE IF Len(v.trace.tv[ck]) = 0
    THEN InitResult("failed", Some(v.trace), Some(v.trace.tv[ck]), None,
                    Error("EmptyVCDError", None, << >>, << >>), {ck})
    ELSE InitResult("ready", Some(v.trace), Some(v.trace.tv[ck]),
                    Some(v.trace.tv[ck][Len(v.trace.tv[ck])][1]), NoError,
                    {ck})

\* what a condition over strings does on a window.  The conditions are
\*   s_is_one      lambda sm1, s, sp1: s == "1"
\*   s_unknown     lambda sm1, s, sp1: "x" in s.lower() or "z" in s.lower()
\*   prev_is_none  lambda sm1, s, sp1: sm1 is None
\*   next_is_none  lambda sm1, s, sp1: sp1 is None
\*   changed       lambda sm1, s, sp1: sm1 != s
\*   s_positive    lambda sm1, s, sp1: int(s, 2) > 0   (ValueError on x, z)
string_condition(cond, sm1, s, sp1) ==
    CASE cond = "s_is_one"     -> Returns(PyBool(s = Some(<<"1">>)))
      [] cond = "s_unknown"    ->
            Returns(PyBool(Contains(Lower(s[1]), <<"x">>)
                           \/ Contains(Lower(s[1]), <<"z">>)))
      [] cond = "prev_is_none" -> Returns(PyBool(IsNone(sm1)))
      [] cond = "next_is_none" -> Returns(PyBool(IsNone(sp1)))
      [] cond = "changed"      -> Returns(PyBool(sm1 # s))
      [] cond = "s_positive"   -> IF ParsesBase2(s[1])
                                  THEN Returns(PyBool(Base2(s[1]) > 0))
                                  ELSE Raises

StringConditions == {"s_is_one", "s_unknown", "prev_is_none", "next_is_none",
                     "changed", "s_positive", "not_callable"}

\* a variant that hands the condition None for a value with an x or a z
VCDSetValueDecoded(opt_str) ==
    IF IsNone(opt_str) \/ IsNone(_value_to_int(opt_str[1]))
    THEN None
    ELSE opt_str

\* sm1, s and sp1 are handed to the condition as they were looked up
VCDSetValue(opt_str) == opt_str

\* the for loop of VCDSet.get from tick time on
RECURSIVE VCDSetLoop(_, _, _, _, _, _, _, _)
VCDSetLoop(name, tv, cond, T, time, out, calls, looked) ==
    IF time > T
    THEN GetReturned(name, cond, out, calls, looked)
    ELSE
    LET a == IF time > 0 THEN Looked(tv, time - 1) ELSE NoLookup
        b == Looked(tv, time)
        c == IF time < T THEN Looked(tv, time + 1) ELSE NoLookup
        parse == Error("VCDParseError", Some(time), << >>, << >>)
    IN
    IF ~a.ok THEN GetRaised(name, cond, parse, calls, looked \o a.at)
    ELSE IF ~b.ok
    THEN GetRaised(name, cond, parse, calls, looked \o a.at \o b.at)
    ELSE IF ~c.ok
    THEN GetRaised(name, cond, parse, calls, looked \o a.at \o b.at \o c.at)
    ELSE
    LET sm1 == VCDSetValue(a.val)
        s == VCDSetValue(b.val)
        sp1 == VCDSetValue(c.val)
        check == string_condition(cond, sm1, s, sp1)
        called == Append(calls,
                         [time |-> time, sm1 |-> sm1, s |-> s, sp1 |-> sp1])
        seen == looked \o a.at \o b.at \o c.at
    IN
    IF check.raised
    THEN GetRaised(name, cond,
                   Error("InvalidSignalConditionError", Some(time), << >>,
                         << >>),
                   called, seen)
    ELSE VCDSetLoop(name, tv, cond, T, time + 1,
                    IF Truthy(check.value) THEN out \cup {time} ELSE out,
                    called, seen)

\* VCDSet.get(signal_name, signal_condition)
VCDSet_get(w, T, signal_name, cond) ==
    IF ~InList(signal_name, get_signals(w))
    THEN GetRaised(signal_name, cond,
                   VCDSetNotFound("SignalNotFoundError", signal_name,
                                  get_signals(w)),
                   << >>, << >>)
    ELSE IF ~Callable(cond)
    THEN GetRaised(signal_name, cond,
                   Error("InvalidSignalConditionError", None, << >>, << >>),
                   << >>, << >>)
    ELSE VCDSetLoop(signal_name, w.tv[signal_name], cond, T, 0, {}, << >>,
                    << >>)

----------------------------------------------------------------------------
(* SetVCD.get_values *)

ValuesRaised(name, ts, e, looked) ==
    Call("get_values", name, "", ts, FALSE, {}, << >>, << >>, e, << >>,
         looked)

ValuesReturned(name, ts, vals, looked) ==
    Call("get_values", name, "", ts, TRUE, {}, vals, << >>, NoError, << >>,
         looked)

\* a variant that leaves the pairs in the order they were appended
InsertLast(sorted, x) == Append(sorted, x)

\* x put into a list already in ascending order of x[1], behind the
\* entries whose key is at most its own
InsertAsc(sorted, x) ==
    LET n == Cardinality({i \in 1..Len(sorted) : sorted[i][1] <= x[1]})
    IN  SubSeq(sorted, 1, n) \o <<x>> \o SubSeq(sorted, n + 1, Len(sorted))

\* result.sort(key=lambda x: x[0]): stable
RECURSIVE SortAsc(_)
SortAsc(result) ==
    IF Len(result) = 0 THEN << >>
    ELSE InsertAsc(SortAsc(SubSeq(result, 1, Len(result) - 1)),
                   result[Len(result)])

\* the for loop of get_values over the timesteps in iteration order, from
\* position i on; result and looked are what the steps before accumulated
RECURSIVE ValuesLoop(_, _, _, _, _, _, _)
ValuesLoop(name, tv, ts, order, i, result, looked) ==
    IF i > Len(order)
    THEN ValuesReturned(name, ts, SortAsc(result), looked)
    ELSE
    LET time == order[i]
        value_str == Item(tv, time)
    IN
    IF ~value_str.ok
    THEN ValuesRaised(name, ts,
                      Error("VCDParseError", Some(time), << >>, << >>),
                      Append(looked, time))
    ELSE ValuesLoop(name, tv, ts, order, i + 1,
                    Append(result, <<time, _value_to_int(value_str.val)>>),
                    Append(looked, time))

\* get_values(signal_name, timesteps); order is the order in which the set
\* timesteps is iterated
get_values(w, signal_name, ts, order) ==
    IF ~InList(signal_name, get_signals(w))
    THEN ValuesRaised(signal_name, ts,
                      NotFound("SignalNotFoundError", signal_name,
                               get_signals(w)),
                      << >>)
    ELSE ValuesLoop(signal_name, w.tv[signal_name], ts, order, 1, << >>,
                    << >>)

----------------------------------------------------------------------------
(* SetVCD.search *)

\* re.search(search_regex, s) for a pattern without regex metacharacters:
\* the pattern occurs in s
re_search(search_regex, s) == Contains(s, search_regex)

\* [s for s in signals if re.search(search_regex, s)]
search(w, search_regex) ==
    Call("search", search_regex, "", {}, TRUE, {}, << >>,
         SelectSeq(get_signals(w), LAMBDA s : re_search(search_regex, s)),
         NoError, << >>, << >>)

----------------------------------------------------------------------------
(* The inputs of the model: signal names, value strings, traces *)

TopClk == <<"T", "o", "p", ".", "c", "l", "k">>  \* "Top.clk"
TopData == <<"T", "o", "p", ".", "d", "a", "t", "a">>  \* "Top.data"
TopClkk == <<"T", "o", "p", ".", "c", "l", "k", "k">>  \* "Top.clkk"
LowerTopClk == <<"t", "o", "p", ".", "c", "l", "k">>  \* "top.clk"
Zz == <<"z", "z">>  \* "zz"
UpperTopData == <<"T", "O", "P", ".", ".", "D", "A", "T", "A">>  \* "TOP..DATA"
TopA == <<"T", "o", "p", ".", "a">>  \* "Top.a"
TopB == <<"T", "o", "p", ".", "b">>  \* "Top.b"
TopClkkQ == <<"T", "o", "p", ".", "c", "l", "k", "k", ".", "q">>  \* "Top.clkk.q"
TopC == <<"T", "o", "p", ".", "c">>  \* "Top.c"
TopD == <<"T", "o", "p", ".", "d">>  \* "Top.d"
TopE == <<"T", "o", "p", ".", "e">>  \* "Top.e"
UF == <<"u", ".", "f">>  \* "u.f"
UG == <<"u", ".", "g">>  \* "u.g"
UH == <<"u", ".", "h">>  \* "u.h"
UData == <<"u", ".", "d", "a", "t", "a">>  \* "u.data"
Empty == << >>  \* ""

\* the names asked of an engine that no trace holds
ProbeNames == {TopClkk, Zz}

\* the clock names asked for that no trace holds
ClockProbes == {TopClkk, Zz, UpperTopData, Empty}

\* the signal list of the traces that exercise the suggestion heuristic
BigList == <<TopClk, TopData, TopA, TopB, TopClkkQ, TopC, TopD, TopE, UF, UG,
             UH, UData>>

\* literal search patterns
SearchPatterns == {Empty, <<"c", "l", "k">>}

V0 == <<"0">>
V1 == <<"1">>
Vx == <<"x">>
Values == {V0, V1, Vx}
Absent == <<"-">>

\* the transitions a choice f of a value (or Absent) per time describes
RECURSIVE TvFrom(_, _)
TvFrom(f, t) ==
    IF t > MaxTime THEN << >>
    ELSE (IF f[t] = Absent THEN << >> ELSE << <<t, f[t]>> >>)
         \o TvFrom(f, t + 1)

\* every ascending transition list over the times 0..MaxTime
DataTVs == {TvFrom(f, 0) : f \in [0..MaxTime -> Values \cup {Absent}]}

\* a clock toggling at every tick, with n transitions
Toggling(n) == [i \in 1..n |-> <<i - 1, IF i % 2 = 1 THEN V0 ELSE V1>>]
ClockTVs == {Toggling(n) : n \in 0..(MaxTime + 1)}

Trace(signals, tv) == [signals |-> signals, tv |-> tv]
Object(trace) == [kind |-> "object", trace |-> trace]
NotATrace == [kind |-> "other", trace |-> Trace(<< >>, << >>)]

\* a trace with the signals Top.clk and Top.data
TwoSignals(clk_tv, data_tv) ==
    Trace(<<TopClk, TopData>>, (TopClk :> clk_tv) @@ (TopData :> data_tv))

\* a trace over a signal list, every signal with one transition (0, "0")
Flat(signals) ==
    Trace(signals,
          [n \in {signals[i] : i \in 1..Len(signals)} |-> << <<0, V0>> >>])

\* clock transitions end at tick 10; the signal has (0,'0'),(3,'1'),(7,'0')
LevelTrace ==
    TwoSignals(<< <<0, V0>>, <<5, V1>>, <<10, V0>> >>,
               << <<0, V0>>, <<3, V1>>, <<7, V0>> >>)

\* multi-bit values, with x and z bits in both cases
WideTrace ==
    TwoSignals(Toggling(5),
               << <<0, <<"0", "1">> >>, <<1, <<"1", "0", "1", "0">> >>,
                  <<2, <<"1", "x", "1", "0">> >>, <<3, <<"Z">> >>,
                  <<6, V1>> >>)

\* a signal whose first transition comes after tick 0
LateTrace == TwoSignals(Toggling(3), << <<1, V1>>, <<2, Vx>> >>)

ScenarioInputs ==
    {<<Object(LevelTrace), TopClk>>,
     <<Object(WideTrace), TopClk>>,
     <<Object(Trace(<< >>, << >>)), TopClk>>,
     <<Object(Trace(<< >>, << >>)), Zz>>,
     <<Object(Flat(<<TopClk>>)), TopClkk>>,
     <<Object(Flat(<<TopClk>>)), LowerTopClk>>,
     <<Object(Flat(<<TopData>>)), TopClk>>,
     <<Object(Flat(<<UF, UG>>)), TopClk>>,
     <<NotATrace, TopClk>>}

MainInputs ==
    {<<Object(TwoSignals(c, d)), TopClk>> : c \in ClockTVs, d \in DataTVs}
    \cup ScenarioInputs

IdemInputs ==
    {<<Object(LevelTrace), TopClk>>, <<Object(WideTrace), TopClk>>,
     <<Object(LateTrace), TopClk>>}

NameInputs ==
    {<<Object(Flat(Prefix(BigList, n))), c>> :
        n \in 1..Len(BigList), c \in {TopClk} \cup ClockProbes}

\* the bit characters of a value string
BitChars == {"0", "1", "x", "z", "X", "Z"}

\* every value string of 1..MaxWidth bits, and the strings of the examples
\* "1010", "1x10" and "01xz"
BitStrings ==
    UNION {[1..n -> BitChars] : n \in 1..MaxWidth}
    \cup {<<"1", "0", "1", "0">>, <<"1", "x", "1", "0">>,
          <<"0", "1", "x", "z">>}

\* a clock with two ticks and a signal that holds one value string
DecodeInputs ==
    {<<Object(TwoSignals(Toggling(2), << <<0, v>> >>)), TopClk>> :
        v \in BitStrings}

\* the traces VCDSet is run on: clocks of one to three ticks, a signal that
\* holds one value string, changes its value, starts late or never starts,
\* and a clock name that is not in the trace
VCDSetDataTVs ==
    {<< <<0, v>> >> : v \in BitStrings}
    \cup {<< <<0, <<"1", "x", "1", "0">> >>, <<1, <<"1">> >> >>,
          << <<0, <<"0">> >>, <<MaxTime, <<"z">> >> >>,
          << <<1, <<"1">> >> >>,
          << >>}

VCDSetInputs ==
    {<<Object(TwoSignals(Toggling(n), tv)), TopClk>> :
        n \in 1..(MaxTime + 1), tv \in VCDSetDataTVs}
    \cup {<<Object(TwoSignals(Toggling(2), << <<0, V1>> >>)), TopClkk>>}

\* the fractional bits and the traces FP is tried with: the value strings
\* of the decoding and two of eight bits
Fracs == (0 - 1)..MaxFrac

FPInputs ==
    {<<Object(TwoSignals(Toggling(2), << <<0, v>> >>)), TopClk>> :
        v \in BitStrings
              \cup {<<"0", "0", "0", "1", "0", "0", "0", "0">>,
                    <<"1", "1", "1", "1", "1", "1", "1", "1">>}}

----------------------------------------------------------------------------
(* The orders in which a set of timesteps may be iterated *)

\* sets up to this size are iterated in every order, larger ones ascending
\* or descending
MaxPermuted == 3

RECURSIVE Ascending(_)
Ascending(S) ==
    IF S = {} THEN << >> ELSE <<Min(S)>> \o Ascending(S \ {Min(S)})

Reverse(q) == [i \in 1..Len(q) |-> q[Len(q) + 1 - i]]

Orders(S) ==
    IF Cardinality(S) <= MaxPermuted
    THEN {f \in [1..Cardinality(S) -> S] :
             \A i, j \in 1..Cardinality(S) : i # j => f[i] # f[j]}
    ELSE {Ascending(S), Reverse(Ascending(S))}

----------------------------------------------------------------------------
(* The state machine *)

InitWith(inputs, tracking) ==
    /\ \E i \in inputs : vcd = i[1] /\ clock = i[2]
    /\ status = "new"
    /\ wave = None
    /\ sigs = None
    /\ last_clock = None
    /\ err = NoError
    /\ inspected = {}
    /\ last = NoCall
    /\ round_trip = FALSE
    /\ first = NoCall
    /\ between = FALSE
    /\ track = tracking
    /\ value_type = None

Init == InitWith(MainInputs, FALSE)
InitIdem == InitWith(IdemInputs, TRUE)
InitNames == InitWith(NameInputs, FALSE)

\* vs = SetVCD(vcd, clock)
Construct ==
    /\ status = "new"
    /\ LET r == __init__(vcd, clock)
       IN  /\ status' = r.status
           /\ wave' = r.wave
           /\ sigs' = r.sigs
           /\ last_clock' = r.last_clock
           /\ err' = r.err
           /\ inspected' = r.inspected
    /\ UNCHANGED <<vcd, clock, last, round_trip, first, between, track,
                 value_type>>

\* the names a caller asks for: those of the trace and the probes
QueryNames ==
    {get_signals(vcd.trace)[i] : i \in 1..Len(get_signals(vcd.trace))}
    \cup ProbeNames

\* the timestep sets a caller passes: some fixed ones and the set the
\* previous get call returned
TimeSets ==
    {{}, {0, MaxTime + 1}}
    \cup (IF last.kind = "get" /\ last.ok THEN {last.out} ELSE {})

\* vs.get(signal_name, cond)
Get(signal_name, cond) ==
    /\ status = "ready"
    /\ last' = get(wave[1], last_clock[1], signal_name, cond)
    /\ round_trip' = FALSE
    /\ first' = IF track /\ first.kind = "none" THEN last' ELSE first
    /\ between' = (between \/ (first.kind = "get"
                                /\ <<signal_name, cond>>
                                   # <<first.signal, first.cond>>))
    /\ UNCHANGED <<vcd, clock, status, wave, sigs, last_clock, err,
                   inspected, track, value_type>>

\* vs.get_values(signal_name, ts), the set iterated in the given order
GetValues(signal_name, ts, order) ==
    /\ status = "ready"
    /\ last' = get_values(wave[1], signal_name, ts, order)
    /\ round_trip' = (last.kind = "get" /\ last.ok /\ last.out = ts
                      /\ last.signal = signal_name)
    /\ between' = (between \/ first.kind = "get")
    /\ UNCHANGED <<vcd, clock, status, wave, sigs, last_clock, err,
                   inspected, first, track, value_type>>

\* vs.search(search_regex)
Search(search_regex) ==
    /\ status = "ready"
    /\ last' = search(wave[1], search_regex)
    /\ round_trip' = FALSE
    /\ between' = (between \/ first.kind = "get")
    /\ UNCHANGED <<vcd, clock, status, wave, sigs, last_clock, err,
                   inspected, first, track, value_type>>

Next ==
    \/ Construct
    \/ \E n \in QueryNames, c \in Conditions : Get(n, c)
    \/ \E n \in QueryNames, ts \in TimeSets :
           \E order \in Orders(ts) : GetValues(n, ts, order)
    \/ \E p \in SearchPatterns : Search(p)

Spec == Init /\ [][Next]_vars
SpecIdem == InitIdem /\ [][Next]_vars
SpecNames == InitNames /\ [][Next]_vars

\* engines over the traces that hold one value string each
InitDecode == InitWith(DecodeInputs, FALSE)
SpecDecode == InitDecode /\ [][Next]_vars

\* vs = VCDSet(vcd, clock)
VCDSetConstruct ==
    /\ status = "new"
    /\ LET r == VCDSet__init__(vcd, clock)
       IN  /\ status' = r.status
           /\ wave' = r.wave
           /\ sigs' = r.sigs
           /\ last_clock' = r.last_clock
           /\ err' = r.err
           /\ inspected' = r.inspected
    /\ UNCHANGED <<vcd, clock, last, round_trip, first, between, track,
                 value_type>>

\* vs.get(signal_name, cond) on a VCDSet
VCDSetGet(signal_name, cond) ==
    /\ status = "ready"
    /\ last' = VCDSet_get(wave[1], last_clock[1], signal_name, cond)
    /\ UNCHANGED <<vcd, clock, status, wave, sigs, last_clock, err,
                   inspected, round_trip, first, between, track,
                   value_type>>

NextVCDSet ==
    \/ VCDSetConstruct
    \/ \E n \in QueryNames, c \in StringConditions : VCDSetGet(n, c)

InitVCDSet == InitWith(VCDSetInputs, FALSE)
SpecVCDSet == InitVCDSet /\ [][NextVCDSet]_vars

\* vt = FP(frac=frac, signed=signed)
MakeFP(frac, signed) ==
    /\ value_type' = Some(FP(frac, signed))
    /\ UNCHANGED <<vcd, clock, status, wave, sigs, last_clock, err,
                   inspected, last, round_trip, first, between, track>>

\* vs.get(signal_name, cond, value_type=vt)
GetValueType(signal_name, cond) ==
    /\ status = "ready"
    /\ ~IsNone(value_type)
    /\ last' = get_value_type(wave[1], last_clock[1], signal_name, cond,
                              value_type[1])
    /\ UNCHANGED <<vcd, clock, status, wave, sigs, last_clock, err,
                   inspected, round_trip, first, between, track, value_type>>

NextFP ==
    \/ Construct
    \/ \E frac \in Fracs, signed \in BOOLEAN : MakeFP(frac, signed)
    \/ \E n \in QueryNames, c \in Conditions : GetValueType(n, c)

InitFP == InitWith(FPInputs, FALSE)
SpecFP == InitFP /\ [][NextFP]_vars

----------------------------------------------------------------------------
(* What the properties speak of, stated without the scan's own operators *)

\* T_max of a constructed engine
T_max == last_clock[1]

\* the names of the trace
TraceNames == {vcd.trace.signals[i] : i \in 1..Len(vcd.trace.signals)}

\* the transition list of the signal the last call named
LastTv == vcd.trace.tv[last.signal]

\* the signal has a transition at or before t
HasLevel(tv, t) == \E i \in 1..Len(tv) : tv[i][1] <= t

\* the value of the signal's last transition at or before t
LevelValue(tv, t) ==
    tv[CHOOSE i \in 1..Len(tv) :
          /\ tv[i][1] <= t
          /\ \A j \in 1..Len(tv) : tv[j][1] <= t => tv[j][1] <= tv[i][1]][2]

\* the value string carries an x or z bit, in either case
HasXZ(value) == \E i \in 1..Len(value) : value[i] \in {"x", "z", "X", "Z"}

\* the last call was a get on a signal of the trace with a callable condition
LastGetScanned ==
    /\ status = "ready"
    /\ last.kind = "get"
    /\ last.signal \in TraceNames
    /\ last.cond # "not_callable"

----------------------------------------------------------------------------
(* C1: level-condition law.  get(signal, cur == 1) returns a set exactly   *)
(* when every tick of [0, T_max] has a transition at or before it, and the *)
(* set is then exactly the ticks whose last transition at or before them   *)
(* has a value that decodes to 1; with T_max = 10 and the transitions      *)
(* (0,'0'),(3,'1'),(7,'0') it is {3,4,5,6}.                                *)
C1_LevelLaw ==
    (LastGetScanned /\ last.cond = "is_high") =>
        /\ last.ok <=> \A t \in 0..T_max : HasLevel(LastTv, t)
        /\ last.ok =>
              last.out = {t \in 0..T_max :
                             _value_to_int(LevelValue(LastTv, t)) = Some(1)}
        /\ (vcd.trace = LevelTrace /\ last.signal = TopData) =>
              (T_max = 10 /\ last.ok /\ last.out = {3, 4, 5, 6})

C1_Witness ==
    /\ LastGetScanned
    /\ last.cond = "is_high"
    /\ vcd.trace = LevelTrace
    /\ last.signal = TopData
    /\ last.out = {3, 4, 5, 6}

(* C2: whatever the condition returns and however far the signal's         *)
(* transitions extend past T_max, a get call returns only ticks of         *)
(* [0, T_max], and it neither looks up nor hands the condition any other   *)
(* tick.                                                                   *)
C2_WithinDomain ==
    LastGetScanned =>
        /\ last.out \subseteq 0..T_max
        /\ \A i \in 1..Len(last.looked) : last.looked[i] \in 0..T_max
        /\ \A i \in 1..Len(last.calls) : last.calls[i].time \in 0..T_max

C2_Witness ==
    /\ LastGetScanned
    /\ last.cond = "cur_value"
    /\ last.ok
    /\ last.out # {}
    /\ \E i \in 1..Len(LastTv) : LastTv[i][1] > T_max

(* C3 as claimed: in the windows get passes to the condition next is None  *)
(* only at t = T_max, and get(signal, next is None) returns a subset of    *)
(* {T_max}.                                                                *)
C3_NextNoneOnlyAtEnd ==
    LastGetScanned =>
        /\ \A i \in 1..Len(last.calls) :
              IsNone(last.calls[i].sp1) => last.calls[i].time = T_max
        /\ (last.cond = "next_is_none" /\ last.ok) =>
              last.out \subseteq {T_max}

(* C3 as amended: next is None at t = T_max, and at a tick t < T_max       *)
(* exactly when the signal's value at t + 1 carries an x or z bit; so      *)
(* get(signal, next is None) returns {T_max} and those ticks.              *)
C3_NextNoneAtEndOrUnknown ==
    LastGetScanned =>
        /\ \A i \in 1..Len(last.calls) :
              IsNone(last.calls[i].sp1) <=>
                  \/ last.calls[i].time = T_max
                  \/ HasXZ(LevelValue(LastTv, last.calls[i].time + 1))
        /\ (last.cond = "next_is_none" /\ last.ok) =>
              last.out = {T_max} \cup
                         {t \in 0..(T_max - 1) :
                             HasXZ(LevelValue(LastTv, t + 1))}

C3_Witness ==
    /\ LastGetScanned
    /\ last.cond = "next_is_none"
    /\ last.ok
    /\ \E t \in last.out : t < T_max
    /\ T_max \in last.out

(* C4: in every get call the window at t = 0 has prev = None and the       *)
(* window at t = T_max has next = None, whatever the signal's values (both *)
(* in the single window when T_max = 0); the rising-edge condition         *)
(* prev == 0 and cur == 1 never selects t = 0.                             *)
C4_Boundaries ==
    LastGetScanned =>
        /\ \A i \in 1..Len(last.calls) :
              /\ last.calls[i].time = 0 => IsNone(last.calls[i].sm1)
              /\ last.calls[i].time = T_max => IsNone(last.calls[i].sp1)
        /\ (last.ok /\ T_max = 0) =>
              /\ Len(last.calls) = 1
              /\ IsNone(last.calls[1].sm1) /\ IsNone(last.calls[1].sp1)
        /\ last.ok =>
              /\ \E i \in 1..Len(last.calls) : last.calls[i].time = 0
              /\ \E i \in 1..Len(last.calls) : last.calls[i].time = T_max
        /\ last.cond = "rising_edge" => 0 \notin last.out

C4_Witness ==
    /\ LastGetScanned
    /\ last.cond = "rising_edge"
    /\ last.ok
    /\ last.out # {}
    /\ _value_to_int(LevelValue(LastTv, 0)) = Some(1)

(* C5: if the condition raises at some tick of a get call, the call fails  *)
(* with InvalidSignalConditionError naming the smallest tick at which the  *)
(* condition raises, returns no set of already-matched ticks, and the      *)
(* condition is not invoked for any later tick.                            *)
C5_ConditionFailureAborts ==
    LastGetScanned =>
        /\ \A i \in 1..Len(last.calls) : last.calls[i].time = i - 1
        /\ \A i \in 1..Len(last.calls) :
              signal_condition(last.cond, last.calls[i].sm1, last.calls[i].s,
                               last.calls[i].sp1).raised =>
                  /\ ~last.ok
                  /\ last.out = {}
                  /\ last.err.type = "InvalidSignalConditionError"
                  /\ last.err.time = Some(last.calls[i].time)
                  /\ i = Len(last.calls)
        /\ last.err.type = "InvalidSignalConditionError" =>
              /\ Len(last.calls) > 0
              /\ signal_condition(last.cond,
                                  last.calls[Len(last.calls)].sm1,
                                  last.calls[Len(last.calls)].s,
                                  last.calls[Len(last.calls)].sp1).raised

C5_Witness ==
    /\ LastGetScanned
    /\ last.cond = "cur_positive"
    /\ last.err.type = "InvalidSignalConditionError"
    /\ last.err.time = Some(1)
    /\ last.calls[1].s = Some(1)
    /\ T_max > 1

(* C6: round trip.  For the set R a get call returned on a signal,         *)
(* get_values(signal, R) returns exactly |R| pairs, one per element of R,  *)
(* in strictly ascending time order, each value the Raw decoding of the    *)
(* signal's value at that time; an empty R gives an empty list.            *)
C6_RoundTrip ==
    round_trip =>
        /\ last.ok
        /\ Len(last.vals) = Cardinality(last.ts)
        /\ {last.vals[i][1] : i \in 1..Len(last.vals)} = last.ts
        /\ \A i \in 1..(Len(last.vals) - 1) :
              last.vals[i][1] < last.vals[i + 1][1]
        /\ \A i \in 1..Len(last.vals) :
              last.vals[i][2] =
                  _value_to_int(LevelValue(LastTv, last.vals[i][1]))
        /\ last.ts = {} => last.vals = << >>

C6_Witness ==
    /\ round_trip
    /\ Cardinality(last.ts) >= 2
    /\ \E i \in 1..Len(last.vals) : IsNone(last.vals[i][2])
    /\ \E i \in 1..Len(last.vals) : ~IsNone(last.vals[i][2])

(* C7: idempotence.  On one engine, a get call with the signal and the     *)
(* condition of the run's first get call has the same outcome (the same    *)
(* set, or the same error), whatever calls ran in between.                 *)
C7_Idempotent ==
    (/\ first.kind = "get"
     /\ last.kind = "get"
     /\ last.signal = first.signal
     /\ last.cond = first.cond) =>
        /\ last.ok = first.ok
        /\ last.out = first.out
        /\ last.err = first.err

C7_Witness ==
    /\ first.kind = "get"
    /\ first.ok
    /\ first.out # {}
    /\ between
    /\ last.kind = "get"
    /\ last.signal = first.signal
    /\ last.cond = first.cond
    /\ last.out = first.out

\* the greatest transition time of a non-empty transition list
GreatestTime(tv) ==
    CHOOSE t \in {tv[i][1] : i \in 1..Len(tv)} :
        \A i \in 1..Len(tv) : tv[i][1] <= t

(* C8: after a successful construction last_clock is the time of the clock *)
(* signal's last transition, and no search, get or get_values call,        *)
(* successful or failing, changes last_clock, the stored clock signal or   *)
(* the waveform handle.                                                    *)
C8_ClockFixed ==
    /\ [](status = "ready" =>
             /\ last_clock = Some(GreatestTime(vcd.trace.tv[clock]))
             /\ sigs = Some(vcd.trace.tv[clock])
             /\ wave = Some(vcd.trace))
    /\ [][status = "ready" =>
             (last_clock' = last_clock /\ sigs' = sigs /\ wave' = wave)]_vars

C8_Witness ==
    /\ status = "ready"
    /\ last.kind = "get_values"
    /\ ~last.ok
    /\ Len(vcd.trace.tv[clock]) >= 2
    /\ last_clock = Some(GreatestTime(vcd.trace.tv[clock]))

(* C9: construction from a capability object fails with EmptyVCDError when *)
(* the trace has no signal names, with ClockSignalError when it has names  *)
(* but none equals the clock name exactly, and with EmptyVCDError when the *)
(* clock exists but has no transitions; last_clock is then never set, and  *)
(* no signal other than the clock is ever resolved.                        *)
C9_ConstructionErrors ==
    (status # "new" /\ vcd.kind = "object") =>
        /\ inspected \subseteq {clock}
        /\ status = "failed" => IsNone(last_clock)
        /\ TraceNames = {} =>
              status = "failed" /\ err.type = "EmptyVCDError"
        /\ (TraceNames # {} /\ clock \notin TraceNames) =>
              status = "failed" /\ err.type = "ClockSignalError"
        /\ (clock \in TraceNames /\ Len(vcd.trace.tv[clock]) = 0) =>
              status = "failed" /\ err.type = "EmptyVCDError"

C9_Witness ==
    /\ status = "failed"
    /\ err.type = "EmptyVCDError"
    /\ clock \in TraceNames
    /\ \E n \in TraceNames : n # clock /\ Len(vcd.trace.tv[n]) > 0
    /\ inspected = {clock}

\* the '.'-separated non-empty parts of a lower-case name, as the pairs of
\* their first and last position
Runs(name) ==
    {r \in (1..Len(name)) \X (1..Len(name)) :
        /\ r[1] <= r[2]
        /\ \A k \in r[1]..r[2] : name[k] # "."
        /\ (r[1] = 1 \/ name[r[1] - 1] = ".")
        /\ (r[2] = Len(name) \/ name[r[2] + 1] = ".")}

\* how many parts of the requested name occur in the lower-cased signal name
PartCount(requested, sig) ==
    Cardinality({r \in Runs(Lower(requested)) :
                    Contains(Lower(sig),
                             SubSeq(Lower(requested), r[1], r[2]))})

Position(sig, list) == CHOOSE i \in 1..Len(list) : list[i] = sig

\* a ranks before b: more parts, or as many and earlier in the signal list
RanksBefore(requested, list, a, b) ==
    \/ PartCount(requested, a) > PartCount(requested, b)
    \/ /\ PartCount(requested, a) = PartCount(requested, b)
       /\ Position(a, list) < Position(b, list)

\* the lists of error e are those a failed lookup of requested presents
Suggests(e, requested, list) ==
    LET positive == {list[i] : i \in {j \in 1..Len(list) :
                                         PartCount(requested, list[j]) > 0}}
        listed == {e.similar[i] : i \in 1..Len(e.similar)}
    IN  IF positive = {}
        THEN /\ e.similar = << >>
             /\ Len(e.available) =
                    (IF Len(list) < 10 THEN Len(list) ELSE 10)
             /\ \A i \in 1..Len(e.available) : e.available[i] = list[i]
        ELSE /\ e.available = << >>
             /\ Len(e.similar) =
                    (IF Cardinality(positive) < 5 THEN Cardinality(positive)
                     ELSE 5)
             /\ listed \subseteq positive
             /\ \A i, j \in 1..Len(e.similar) :
                    i < j => RanksBefore(requested, list, e.similar[i],
                                         e.similar[j])
             /\ \A n \in positive \ listed : \A m \in listed :
                    RanksBefore(requested, list, m, n)

(* C10: when an exact lookup fails (clock at construction, signal in get   *)
(* and get_values) the error lists at most 5 existing names, each with at  *)
(* least one lower-case '.'-separated part of the requested name in its    *)
(* lower-cased form, by descending count of such parts, ties in            *)
(* signal-list order; when no name scores, the first 10 names instead.     *)
(* Asking for "Top.clkk" when only "Top.clk" exists raises                 *)
(* SignalNotFoundError suggesting "Top.clk".                               *)
C10_Suggestions ==
    /\ (status = "failed" /\ err.type = "ClockSignalError") =>
           Suggests(err, clock, vcd.trace.signals)
    /\ (status = "ready" /\ last.kind \in {"get", "get_values"}) =>
           /\ last.signal \notin TraceNames <=>
                  last.err.type = "SignalNotFoundError"
           /\ last.signal \notin TraceNames =>
                  Suggests(last.err, last.signal, vcd.trace.signals)
           /\ (vcd.trace.signals = <<TopClk>> /\ last.signal = TopClkk) =>
                  \E i \in 1..Len(last.err.similar) :
                      last.err.similar[i] = TopClk

C10_Witness ==
    /\ status = "ready"
    /\ last.kind = "get"
    /\ last.signal = TopClkk
    /\ Len(vcd.trace.signals) = Len(BigList)
    /\ Len(last.err.similar) = 5
    /\ last.err.similar[1] = TopClkkQ
    /\ last.err.similar[2] = TopClk

\* 2^n
RECURSIVE Pow2(_)
Pow2(n) == IF n = 0 THEN 1 ELSE 2 * Pow2(n - 1)

\* the unsigned value of a string of binary digits: the weights of its '1's
BitsValue(value) ==
    LET weight(i) == IF value[i] = "1" THEN Pow2(Len(value) - i) ELSE 0
        sum[i \in 0..Len(value)] ==
            IF i = 0 THEN 0 ELSE sum[i - 1] + weight(i)
    IN  sum[Len(value)]

\* the Raw decoding the claims speak of
RawOf(value) == IF HasXZ(value) THEN None ELSE Some(BitsValue(value))

(* C11: Raw decoding.  A value string over {0,1,x,z,X,Z} decodes to None   *)
(* when it carries an x or z in either case and to its unsigned base-2     *)
(* value otherwise ("1010" gives 10, "1x10" gives None); a value that does *)
(* not decode is a None in the window or in the get_values pair, never an  *)
(* error.                                                                  *)
C11_RawDecoding ==
    /\ _value_to_int(<<"1", "0", "1", "0">>) = Some(10)
    /\ _value_to_int(<<"1", "x", "1", "0">>) = None
    /\ LastGetScanned =>
          /\ \A i \in 1..Len(last.calls) :
                LET c == last.calls[i]
                IN  /\ c.s = RawOf(LevelValue(LastTv, c.time))
                    /\ c.time > 0 =>
                          c.sm1 = RawOf(LevelValue(LastTv, c.time - 1))
                    /\ c.time < T_max =>
                          c.sp1 = RawOf(LevelValue(LastTv, c.time + 1))
          /\ (\A t \in 0..T_max : HasLevel(LastTv, t)) =>
                /\ last.err.type \in {"none", "InvalidSignalConditionError"}
                /\ Len(last.calls) > 0
    /\ (/\ status = "ready"
        /\ last.kind = "get_values"
        /\ last.signal \in TraceNames) =>
          /\ \A i \in 1..Len(last.vals) :
                last.vals[i][2] = RawOf(LevelValue(LastTv, last.vals[i][1]))
          /\ (\A t \in last.ts : HasLevel(LastTv, t)) =>
                last.ok /\ Len(last.vals) = Cardinality(last.ts)

C11_Witness ==
    /\ LastGetScanned
    /\ last.signal = TopData
    /\ LastTv = << <<0, <<"1", "Z">> >> >>
    /\ last.cond = "cur_value"
    /\ last.ok
    /\ last.out = {}
    /\ Len(last.calls) = 2
    /\ IsNone(last.calls[2].sm1)

(* C15: get validates in a fixed order.  A name absent from the trace      *)
(* raises SignalNotFoundError even when the condition is not callable; a   *)
(* name of the trace with a condition that is not callable raises          *)
(* InvalidSignalConditionError; in both cases no point is looked up and    *)
(* the condition is never invoked, whatever T_max is, 0 included.          *)
C15_ValidationOrder ==
    (status = "ready" /\ last.kind = "get") =>
        /\ last.signal \notin TraceNames =>
              /\ ~last.ok
              /\ last.err.type = "SignalNotFoundError"
              /\ last.calls = << >>
              /\ last.looked = << >>
        /\ (last.signal \in TraceNames /\ last.cond = "not_callable") =>
              /\ ~last.ok
              /\ last.err.type = "InvalidSignalConditionError"
              /\ IsNone(last.err.time)
              /\ last.calls = << >>
              /\ last.looked = << >>

C15_Witness ==
    /\ status = "ready"
    /\ T_max = 0
    /\ last.kind = "get"
    /\ last.signal \notin TraceNames
    /\ last.cond = "not_callable"
    /\ last.err.type = "SignalNotFoundError"
    /\ last.calls = << >>

(* C14: validation of the signals other than the clock is deferred to      *)
(* first use.  Construction succeeds when such a signal has no             *)
(* transition, and a later get or get_values on it ends in EmptyVCDError,  *)
(* not in another error type and not in a result.                          *)
C14_DeferredEmptyTrace ==
    (/\ status = "ready"
     /\ last.kind \in {"get", "get_values"}
     /\ last.signal \in TraceNames
     /\ last.signal # clock
     /\ LastTv = << >>
     /\ last.kind = "get" => last.cond # "not_callable") =>
        /\ ~last.ok
        /\ last.err.type = "EmptyVCDError"

FixedOf(value, vt) ==
    IF HasXZ(value) THEN None
    ELSE LET v == BitsValue(value)
             signed_int == IF vt.signed /\ value[1] = "1"
                           THEN v - Pow2(Len(value))
                           ELSE v
         IN  Some(<<signed_int, Pow2(vt.frac)>>)

(* C13: under FP(frac, signed) a window value is None when the Raw         *)
(* decoding is None and otherwise v / 2^frac, v being the unsigned base-2  *)
(* value, less 2^width when signed is set and the top bit is 1; a negative *)
(* frac is rejected when the value type is made, not at each decoding.     *)
C13_FixedPoint ==
    /\ ~IsNone(value_type) => value_type[1].frac >= 0
    /\ (/\ LastGetScanned
        /\ ~IsNone(value_type)
        /\ \A t \in 0..T_max : HasLevel(LastTv, t)) =>
          /\ last.err.type \in {"none", "InvalidSignalConditionError"}
          /\ Len(last.calls) > 0
          /\ \A i \in 1..Len(last.calls) :
                LET c == last.calls[i]
                IN  /\ c.s = FixedOf(LevelValue(LastTv, c.time),
                                     value_type[1])
                    /\ c.time > 0 =>
                          c.sm1 = FixedOf(LevelValue(LastTv, c.time - 1),
                                          value_type[1])
                    /\ c.time < T_max =>
                          c.sp1 = FixedOf(LevelValue(LastTv, c.time + 1),
                                          value_type[1])

============================================================================
